---- MODULE Spec2Model ----
(***************************************************************************)
(* Model of the YieldCurve backend (src/backend/app.py): the startup       *)
(* ingestion of the Treasury feed into the ChartDataPoint table, the read  *)
(* endpoints, and the order endpoints over the Order table.                *)
(*                                                                         *)
(* Encodings.  A yield is an integer number of hundredths of a percent     *)
(* (411 is 4.11).  An optional value (Python's x | None) is a sequence of  *)
(* length 0 (None) or 1.  A date string "YYYY-MM-DD" with an optional      *)
(* time-of-day suffix is a record [y, m, d, t], t being the suffix text;   *)
(* all dates of the model are zero padded, so that Python's string order   *)
(* is the lexicographic order of (y, m, d, t).  A float quantity is a      *)
(* record [nan, int, frac]: the number int + frac / 10^6 (0 <= frac <      *)
(* 10^6), or IEEE NaN when nan is TRUE.                                    *)
(***************************************************************************)
EXTENDS Integers, Sequences, FiniteSets, TLC

VARIABLES
    pc,        \* position of the process in lifespan(): boot, fetched, parsed, cleared, committed, serving, failed
    response,  \* the HTTP response of the fetch (lifespan's `response`)
    idx,       \* number of <entry> elements the ingestion loop has consumed
    pending,   \* rows added to the ingestion session and not yet committed
    points,    \* the committed ChartDataPoint table, in rowid order
    orders,    \* the committed Order table, in rowid order
    resp,      \* the last response produced by an endpoint (or by a reader of the database file)
    preRun,    \* history: the ChartDataPoint table as it was when the current process started
    ingested,  \* history: the commit of line 151 has happened in the current process
    prevResponse, \* history: the response fetched by the process that ran before this one on the same file
    created,   \* history: the Order records returned by the create_order calls that succeeded
    call,      \* the last direct call of a pure function, with its arguments and result
    sessions,  \* per worker thread: the request it handles and the Order its session has built and not yet committed
    clock      \* the wall clock of the serving process

vars == <<pc, response, idx, pending, points, orders, resp, preRun, ingested, prevResponse, created, call,
          sessions, clock>>

(***************************************************************************)
(* Bounds of the model.                                                    *)
(***************************************************************************)
MaxEntries == 2     \* <entry> elements in a fetched document
MaxOrders == 2      \* rows of the Order table
MaxFields == 3      \* entries of a raw field mapping handed to the transformer directly
MaxRows == 3        \* rows of a table handed to a read handler directly
MaxWorkers == 2     \* threads of the server that handle requests at the same time

(***************************************************************************)
(* Helpers on optional values and sequences.                               *)
(***************************************************************************)
None == <<>>
Some(v) == <<v>>

Range(s) == {s[i] : i \in DOMAIN s}

SeqsUpTo(S, n) == UNION {[1..k -> S] : k \in 0..n}

(***************************************************************************)
(* Terms: OrderCreate.validate_term's valid_terms and the transformer's    *)
(* label_map.                                                              *)
(***************************************************************************)
valid_terms == <<"1m", "1.5m", "2m", "3m", "4m", "6m", "1Y", "2Y", "3Y", "5Y", "7Y", "10Y", "20Y", "30Y">>

TERM_SET == Range(valid_terms)

label_map ==
    [k \in {"BC_1MONTH", "BC_1_5MONTH", "BC_2MONTH", "BC_3MONTH", "BC_4MONTH",
            "BC_6MONTH", "BC_1YEAR", "BC_2YEAR", "BC_3YEAR", "BC_5YEAR",
            "BC_7YEAR", "BC_10YEAR", "BC_20YEAR", "BC_30YEAR"} |->
        CASE k = "BC_1MONTH" -> "1m"
          [] k = "BC_1_5MONTH" -> "1.5m"
          [] k = "BC_2MONTH" -> "2m"
          [] k = "BC_3MONTH" -> "3m"
          [] k = "BC_4MONTH" -> "4m"
          [] k = "BC_6MONTH" -> "6m"
          [] k = "BC_1YEAR" -> "1Y"
          [] k = "BC_2YEAR" -> "2Y"
          [] k = "BC_3YEAR" -> "3Y"
          [] k = "BC_5YEAR" -> "5Y"
          [] k = "BC_7YEAR" -> "7Y"
          [] k = "BC_10YEAR" -> "10Y"
          [] k = "BC_20YEAR" -> "20Y"
          [] k = "BC_30YEAR" -> "30Y"]

(***************************************************************************)
(* transform_and_store_treasury_data: bc_values is a dict, modelled as the *)
(* sequence of its (key, value) items in insertion order (keys distinct).  *)
(* The result is the sequence of rows the function adds to the session.    *)
(***************************************************************************)
KeepsField(item) == item[1] \in DOMAIN label_map /\ item[2] # None

KeepsFieldIfTruthy(item) == item[1] \in DOMAIN label_map /\ item[2] # None /\ item[2] # Some(0)

ChartPointsOf(date_value, kept) ==
    [i \in 1..Len(kept) |->
        [date |-> date_value,
         term |-> label_map[kept[i][1]],
         yield_value |-> kept[i][2][1]]]

\* The transformer with the test `yield_value is not None` written as a truth test.
transform_dropping_zero(date_value, bc_values) ==
    ChartPointsOf(date_value, SelectSeq(bc_values, KeepsFieldIfTruthy))

transform_and_store_treasury_data(date_value, bc_values) ==
    ChartPointsOf(date_value, SelectSeq(bc_values, KeepsField))

(***************************************************************************)
(* OrderCreate: the two field validators.  A comparison with NaN is false. *)
(***************************************************************************)
MaxQuantity == 10000000

Quantity(int, frac) == [nan |-> FALSE, int |-> int, frac |-> frac]

NaN == [nan |-> TRUE, int |-> 0, frac |-> 0]

\* v <= 0
LeqZero(v) == ~v.nan /\ (v.int < 0 \/ (v.int = 0 /\ v.frac = 0))

\* v > 10_000_000
GtMax(v) == ~v.nan /\ (v.int > MaxQuantity \/ (v.int = MaxQuantity /\ v.frac > 0))

\* The quantity validator without its upper limit.
validate_quantity_lower_only(v) == ~LeqZero(v)

\* TRUE when the validator returns v, FALSE when it raises ValueError.
validate_term(v) == v \in Range(valid_terms)

validate_quantity(v) == ~(LeqZero(v) \/ GtMax(v))

\* The validation stopping at the first field whose validator raises.
OrderCreateFirstError(order_data) ==
    IF ~validate_term(order_data.term) THEN {"term"}
    ELSE IF ~validate_quantity(order_data.quantity) THEN {"quantity"}
    ELSE {}

\* The fields of an OrderCreate input whose validator raises: pydantic runs every
\* field's validator and the 422 response lists every failing field.
OrderCreateErrors(order_data) ==
    {f \in {"term", "quantity"} :
        \/ f = "term" /\ ~validate_term(order_data.term)
        \/ f = "quantity" /\ ~validate_quantity(order_data.quantity)}

(***************************************************************************)
(* Date strings.                                                           *)
(***************************************************************************)
Midnight == "T00:00:00"

Date(y, m, d, t) == [y |-> y, m |-> m, d |-> d, t |-> t]

\* Python's (and SQLite's) string order on zero-padded dates: a string is smaller
\* than the same string followed by a suffix.
StrLess(a, b) ==
    \/ a.y < b.y
    \/ a.y = b.y /\ a.m < b.m
    \/ a.y = b.y /\ a.m = b.m /\ a.d < b.d
    \/ a.y = b.y /\ a.m = b.m /\ a.d = b.d /\ a.t = "" /\ b.t # ""

\* date.split('T')[0]
SplitT(date) == [date EXCEPT !.t = ""]

IsLeap(y) == (y % 4 = 0 /\ y % 100 # 0) \/ y % 400 = 0

\* The lengths of the months with February always 28 days long.
DaysInMonthNoLeap(y, m) ==
    CASE m \in {1, 3, 5, 7, 8, 10, 12} -> 31
      [] m \in {4, 6, 9, 11} -> 30
      [] m = 2 -> 28

DaysInMonth(y, m) ==
    CASE m \in {1, 3, 5, 7, 8, 10, 12} -> 31
      [] m \in {4, 6, 9, 11} -> 30
      [] m = 2 -> IF IsLeap(y) THEN 29 ELSE 28

NextDay(date) ==
    IF date.d < DaysInMonth(date.y, date.m) THEN [date EXCEPT !.d = date.d + 1]
    ELSE IF date.m < 12 THEN [date EXCEPT !.m = date.m + 1, !.d = 1]
    ELSE [date EXCEPT !.y = date.y + 1, !.m = 1, !.d = 1]

RECURSIVE AddDays(_, _)
\* issue + timedelta(days=n)
AddDays(date, n) ==
    LET left == DaysInMonth(date.y, date.m) - date.d
    IN  IF n <= left THEN [date EXCEPT !.d = date.d + n]
        ELSE AddDays(NextDay([date EXCEPT !.d = date.d + left]), n - left - 1)

\* issue.replace(year=y): None stands for the ValueError("day is out of range for month")
ReplaceYear(date, y) ==
    IF date.d > DaysInMonth(y, date.m) THEN None ELSE Some([date EXCEPT !.y = y])

(***************************************************************************)
(* calculate_maturity_date.  The text of a term is read through two        *)
(* tables: its last character and the number before it (times ten, so     *)
(* that "1.5m" is 15).                                                     *)
(***************************************************************************)
MonthTenths == [t \in {"1m", "1.5m", "2m", "3m", "4m", "6m"} |->
    CASE t = "1m" -> 10 [] t = "1.5m" -> 15 [] t = "2m" -> 20
      [] t = "3m" -> 30 [] t = "4m" -> 40 [] t = "6m" -> 60]

YearCount == [t \in {"1Y", "2Y", "3Y", "5Y", "7Y", "10Y", "20Y", "30Y"} |->
    CASE t = "1Y" -> 1 [] t = "2Y" -> 2 [] t = "3Y" -> 3 [] t = "5Y" -> 5
      [] t = "7Y" -> 7 [] t = "10Y" -> 10 [] t = "20Y" -> 20 [] t = "30Y" -> 30]

\* The maturity with a year term counted as 365 days a year.
calculate_maturity_date_365(issue_date, term) ==
    LET issue == [issue_date EXCEPT !.t = IF @ = Midnight THEN "" ELSE @]
    IN  IF term \in DOMAIN MonthTenths
        THEN Some(SplitT(AddDays(issue, (MonthTenths[term] * 30) \div 10)))
        ELSE IF term \in DOMAIN YearCount
        THEN Some(SplitT(AddDays(issue, 365 * YearCount[term])))
        ELSE Some(SplitT(AddDays(issue, 365)))

\* The maturity with February 29 moved to February 28 in a year that has none.
calculate_maturity_date_clamping(issue_date, term) ==
    LET issue == [issue_date EXCEPT !.t = IF @ = Midnight THEN "" ELSE @]
        years == IF term \in DOMAIN YearCount THEN YearCount[term] ELSE 1
        day == IF issue.d > DaysInMonth(issue.y + years, issue.m)
               THEN DaysInMonth(issue.y + years, issue.m)
               ELSE issue.d
    IN  IF term \in DOMAIN MonthTenths
        THEN Some(SplitT(AddDays(issue, (MonthTenths[term] * 30) \div 10)))
        ELSE Some(SplitT([issue EXCEPT !.y = issue.y + years, !.d = day]))

\* None for the ValueError, else Some(maturity.strftime("%Y-%m-%d")).
calculate_maturity_date(issue_date, term) ==
    LET issue == [issue_date EXCEPT !.t = IF @ = Midnight THEN "" ELSE @]
    IN  IF term \in DOMAIN MonthTenths
        THEN Some(SplitT(AddDays(issue, (MonthTenths[term] * 30) \div 10)))
        ELSE IF term \in DOMAIN YearCount
        THEN LET r == ReplaceYear(issue, issue.y + YearCount[term])
             IN  IF r = None THEN None ELSE Some(SplitT(r[1]))
        ELSE LET r == ReplaceYear(issue, issue.y + 1)
             IN  IF r = None THEN None ELSE Some(SplitT(r[1]))

(***************************************************************************)
(* The fetched document.  A document is [wellformed, entries]; an entry is *)
(* the sequence of the children of its m:properties element (None when the *)
(* entry has no content or no properties element), each child a pair       *)
(* <<local tag name, optional text>>.                                      *)
(***************************************************************************)
D_OLD == Date(2024, 2, 29, Midnight)
D_NEW == Date(2025, 9, 18, Midnight)

\* float(str(text)) on the texts of the model: the number in hundredths, and no
\* entry for a text Python's float() rejects with ValueError.
NumericText == [t \in {"4.11", "4.20", "4.30", "0.00"} |->
    CASE t = "4.11" -> 411 [] t = "4.20" -> 420 [] t = "4.30" -> 430 [] t = "0.00" -> 0]

\* child.tag.startswith("{ns}BC_"), on the tag names of the model
StartsWithBC(tag) == tag \in DOMAIN label_map \cup {"BC_30YEARDISPLAY"}

EntryPool ==
    { Some(<< <<"NEW_DATE", Some(D_NEW)>>, <<"BC_1MONTH", Some("4.20")>>, <<"BC_10YEAR", Some("4.11")>> >>),
      Some(<< <<"NEW_DATE", Some(D_NEW)>>, <<"BC_1MONTH", None>>, <<"BC_10YEAR", Some("4.30")>>, <<"BC_30YEARDISPLAY", Some("0.00")>> >>),
      Some(<< <<"NEW_DATE", Some(D_OLD)>>, <<"BC_1MONTH", Some("4.30")>>, <<"BC_10YEAR", Some("4.11")>> >>),
      Some(<< <<"NEW_DATE", Some(D_OLD)>>, <<"BC_1MONTH", Some("N/A")>> >>),
      Some(<< <<"BC_1MONTH", Some("4.20")>> >>),
      None }

NotXml == [wellformed |-> FALSE, entries |-> <<>>]

Feed(entries) == [wellformed |-> TRUE, entries |-> entries]

Documents == {NotXml} \cup {Feed(es) : es \in SeqsUpTo(EntryPool, MaxEntries)}

\* The responses the fetch can return: the code reads response.text whatever the
\* status, so an error status matters only through its body.
Responses ==
    {[status_code |-> 200, text |-> d] : d \in Documents}
    \cup {[status_code |-> 503, text |-> d] : d \in {NotXml, Feed(<<>>)}}

NoResponse == [status_code |-> 0, text |-> NotXml]

(***************************************************************************)
(* lifespan, lines 130-149: one entry of the loop.                         *)
(***************************************************************************)
\* props.find("d:NEW_DATE").text, None when there is no such child
DateValue(props) ==
    LET ix == {i \in DOMAIN props : props[i][1] = "NEW_DATE"}
    IN  IF ix = {} THEN None
        ELSE props[CHOOSE i \in ix : \A j \in ix : i <= j][2]

\* bc_values[key] = value on a dict kept as a sequence of items
DictSet(items, key, value) ==
    IF \E i \in DOMAIN items : items[i][1] = key
    THEN [i \in DOMAIN items |-> IF items[i][1] = key THEN <<key, value>> ELSE items[i]]
    ELSE Append(items, <<key, value>>)

RECURSIVE BcValues(_, _, _)
\* The loop of lines 142-146 from child i on: Some(bc_values), or None when a
\* float() raises ValueError.
BcValues(props, i, acc) ==
    IF i > Len(props) THEN Some(acc)
    ELSE LET tag == props[i][1]
             text == props[i][2]
         IN  IF ~StartsWithBC(tag) THEN BcValues(props, i + 1, acc)
             ELSE IF text = None THEN BcValues(props, i + 1, DictSet(acc, tag, None))
             ELSE IF text[1] \notin DOMAIN NumericText THEN None
             ELSE BcValues(props, i + 1, DictSet(acc, tag, Some(NumericText[text[1]])))

\* What one entry does to the session: [ok |-> FALSE] when it raises, else the rows it adds.
EntryRows(entry) ==
    IF entry = None THEN [ok |-> TRUE, rows |-> <<>>]
    ELSE LET props == entry[1]
             date_value == DateValue(props)
         IN  IF date_value = None THEN [ok |-> TRUE, rows |-> <<>>]
             ELSE LET bc == BcValues(props, 1, <<>>)
                  IN  IF bc = None THEN [ok |-> FALSE, rows |-> <<>>]
                      ELSE [ok |-> TRUE,
                            rows |-> transform_and_store_treasury_data(date_value[1], bc[1])]

(***************************************************************************)
(* Queries on the ChartDataPoint table.                                    *)
(***************************************************************************)
\* The latest-date query ordered ascending instead of descending.
EarliestDate(rows) ==
    CHOOSE d \in {rows[i].date : i \in DOMAIN rows} :
        \A i \in DOMAIN rows : ~StrLess(rows[i].date, d)

\* select(ChartDataPoint).order_by(desc(date)).first().date on a non-empty table
LatestDate(rows) ==
    CHOOSE d \in {rows[i].date : i \in DOMAIN rows} :
        \A i \in DOMAIN rows : ~StrLess(d, rows[i].date)

\* The by-date selection comparing the date parts only.
RowsOfDatePart(rows, d) == SelectSeq(rows, LAMBDA r : SplitT(r.date) = SplitT(d))

\* select(ChartDataPoint).where(date == d).all(), in rowid order
RowsOfDate(rows, d) == SelectSeq(rows, LAMBDA r : r.date = d)

\* select(ChartDataPoint).where(date == d).where(term == t): .first() has no
\* ORDER BY, so any of these rows may be the one returned
RowsOfDateTerm(rows, d, t) == {i \in DOMAIN rows : rows[i].date = d /\ rows[i].term = t}

(***************************************************************************)
(* chart_data.sort(key=...): a stable sort by the position in `order`,     *)
(* 999 for a term that is not in it.                                       *)
(***************************************************************************)
UnknownKey == 999

SortKey(term) ==
    IF term \in Range(valid_terms)
    THEN (CHOOSE i \in DOMAIN valid_terms : valid_terms[i] = term) - 1
    ELSE UnknownKey

\* The insertion of an unstable sort: x goes before the elements of equal key.
InsertBeforeEqualKeys(sorted, x) ==
    LET before == {i \in DOMAIN sorted : SortKey(sorted[i].term) < SortKey(x.term)}
        n == Cardinality(before)
    IN  SubSeq(sorted, 1, n) \o <<x>> \o SubSeq(sorted, n + 1, Len(sorted))

\* x goes after every element whose key is not greater than its own
InsertByKey(sorted, x) ==
    LET before == {i \in DOMAIN sorted : SortKey(sorted[i].term) <= SortKey(x.term)}
        n == Cardinality(before)
    IN  SubSeq(sorted, 1, n) \o <<x>> \o SubSeq(sorted, n + 1, Len(sorted))

RECURSIVE SortChartData(_)
SortChartData(chart_data) ==
    IF chart_data = <<>> THEN <<>>
    ELSE InsertByKey(SortChartData(SubSeq(chart_data, 1, Len(chart_data) - 1)),
                     chart_data[Len(chart_data)])

\* lines 198-204 and 235-241
ChartData(chart_data_points) ==
    [i \in DOMAIN chart_data_points |->
        [term |-> chart_data_points[i].term, Yield |-> chart_data_points[i].yield_value]]

(***************************************************************************)
(* ORDER BY, OFFSET and LIMIT.  Rows whose sort keys are equal come in an   *)
(* order SQL does not fix, so a sorted query has a set of possible results. *)
(***************************************************************************)
\* The term strings in SQLite's BINARY (byte-wise) order
TermsAscending == <<"1.5m", "10Y", "1Y", "1m", "20Y", "2Y", "2m", "30Y", "3Y", "3m", "4m", "5Y", "6m", "7Y">>

TermRank(term) == CHOOSE i \in DOMAIN TermsAscending : TermsAscending[i] = term

\* The number of distinct dates of the table greater than d: the rank of d in
\* ORDER BY date DESC
DateRankDesc(rows, d) == Cardinality({rows[i].date : i \in {j \in DOMAIN rows : StrLess(d, rows[j].date)}})

RECURSIVE OrdersOfKeys(_, _)
\* The sequences of the row numbers ixs in nondecreasing order of their keys
OrdersOfKeys(keys, ixs) ==
    IF ixs = {} THEN {<<>>}
    ELSE UNION {{<<i>> \o rest : rest \in OrdersOfKeys(keys, ixs \ {i})} :
                   i \in {j \in ixs : \A k \in ixs : keys[j] <= keys[k]}}

\* The window starting one row too late.
WindowSkippingOne(s, offset, limit) ==
    LET last == IF offset + limit < Len(s) THEN offset + limit ELSE Len(s)
    IN  IF offset + 2 > last THEN <<>> ELSE SubSeq(s, offset + 2, last)

\* .offset(offset).limit(limit)
Window(s, offset, limit) ==
    LET last == IF offset + limit < Len(s) THEN offset + limit ELSE Len(s)
    IN  IF offset + 1 > last THEN <<>> ELSE SubSeq(s, offset + 1, last)

RECURSIVE DatesDescending(_)
\* select(ChartDataPoint.date).distinct().order_by(desc(date)) on a set of dates
DatesDescending(dates) ==
    IF dates = {} THEN <<>>
    ELSE LET d == CHOOSE x \in dates : \A y \in dates : ~StrLess(x, y)
         IN  <<d>> \o DatesDescending(dates \ {d})

\* lines 259-264: the possible results of the paginated query
AllChartDataPages(rows, offset, limit) ==
    LET keys == [i \in DOMAIN rows |-> DateRankDesc(rows, rows[i].date) * 100 + TermRank(rows[i].term)]
    IN  {Window([i \in DOMAIN o |-> rows[o[i]]], offset, limit) : o \in OrdersOfKeys(keys, DOMAIN rows)}

\* lines 343-348: the possible results of the orders query, latest purchase first
OrderPages(rows, offset, limit) ==
    LET keys == [i \in DOMAIN rows |-> 0 - rows[i].purchase_timestamp]
    IN  {Window([i \in DOMAIN o |-> rows[o[i]]], offset, limit) : o \in OrdersOfKeys(keys, DOMAIN rows)}

(***************************************************************************)
(* Responses.                                                              *)
(***************************************************************************)
NoResp == [op |-> "none", status |-> 0, body |-> [none |-> TRUE]]

Reply(op, status, body) == [op |-> op, status |-> status, body |-> body]

ReadOps == {"read_root", "read_treasury_by_date", "read_available_dates", "read_all_chart_data", "get_orders"}

ServiceOps == ReadOps \cup {"create_order"}

\* datetime.now() as read by a new Order: the wall clock, an input of the handler
Clock == {1, 2}

\* The earliest reading of the clock
Instant == 1

\* The threads of the pool that runs the handlers (each `def` endpoint runs in
\* a thread of its own, with a Session of its own)
Workers == 1..MaxWorkers

\* A thread that handles no request
Idle == [pc |-> "idle"]

TypeOK ==
    /\ pc \in {"boot", "fetched", "parsed", "cleared", "committed", "serving", "failed"}
    /\ response \in Responses \cup {NoResponse}
    /\ idx \in 0..MaxEntries
    /\ Len(orders) <= MaxOrders
    /\ ingested \in BOOLEAN

Init ==
    /\ pc = "boot"
    /\ response = NoResponse
    /\ idx = 0
    /\ pending = <<>>
    /\ points = <<>>
    /\ orders = <<>>
    /\ resp = NoResp
    /\ preRun = <<>>
    /\ ingested = FALSE
    /\ prevResponse = NoResponse
    /\ created = {}
    /\ call = [fn |-> "none"]
    /\ sessions = [w \in Workers |-> Idle]
    /\ clock = Instant

(***************************************************************************)
(* lifespan: the startup ingestion.                                        *)
(***************************************************************************)
\* lines 115-118: the fetch returns one of the responses of a set
FetchFrom(responses) ==
    /\ pc = "boot"
    /\ \E r \in responses : response' = r
    /\ pc' = "fetched"
    /\ UNCHANGED <<sessions, clock, idx, pending, points, orders, resp, preRun, prevResponse, created, ingested, call>>

Fetch == FetchFrom(Responses)

\* lines 115-116: the fetch raises (no connection, timeout); startup fails
FetchRaises ==
    /\ pc = "boot"
    /\ pc' = "failed"
    /\ UNCHANGED <<sessions, clock, response, idx, pending, points, orders, resp, preRun, prevResponse, created, ingested, call>>

\* line 119: ET.fromstring raises ParseError on text that is not well-formed
Parse ==
    /\ pc = "fetched"
    /\ pc' = IF response.text.wellformed THEN "parsed" ELSE "failed"
    /\ UNCHANGED <<sessions, clock, response, idx, pending, points, orders, resp, preRun, prevResponse, created, ingested, call>>

\* Lines 122-127 deleting the rows of every table of the file.
ClearEverything ==
    /\ pc = "parsed"
    /\ points' = <<>>
    /\ orders' = <<>>
    /\ pending' = <<>>
    /\ idx' = 0
    /\ pc' = "cleared"
    /\ UNCHANGED <<sessions, clock, response, resp, preRun, prevResponse, created, ingested, call>>

\* Lines 122-127 deleting only the rows of the dates the new document lacks.
ClearStaleOnly ==
    /\ pc = "parsed"
    /\ LET entries == response.text.entries
           dates == {DateValue(entries[i][1]) : i \in {j \in DOMAIN entries : entries[j] # None}}
       IN  points' = SelectSeq(points, LAMBDA r : Some(r.date) \in dates)
    /\ pending' = <<>>
    /\ idx' = 0
    /\ pc' = "cleared"
    /\ UNCHANGED <<sessions, clock, response, orders, resp, preRun, prevResponse, created, ingested, call>>

\* Lines 122-127 without the deletion: the rows of earlier runs are kept.
ClearNothing ==
    /\ pc = "parsed"
    /\ points' = points
    /\ pending' = <<>>
    /\ idx' = 0
    /\ pc' = "cleared"
    /\ UNCHANGED <<sessions, clock, response, orders, resp, preRun, prevResponse, created, ingested, call>>

\* lines 122-127: every existing row is deleted and the deletion is committed
ClearExisting ==
    /\ pc = "parsed"
    /\ points' = <<>>
    /\ pending' = <<>>
    /\ idx' = 0
    /\ pc' = "cleared"
    /\ UNCHANGED <<sessions, clock, response, orders, resp, preRun, prevResponse, created, ingested, call>>

\* lines 130-149: one <entry>; an exception leaves the `with Session` block, which
\* rolls the uncommitted rows back, and fails the startup
IngestEntry ==
    /\ pc = "cleared"
    /\ idx < Len(response.text.entries)
    /\ LET e == EntryRows(response.text.entries[idx + 1])
       IN  IF e.ok
           THEN /\ pending' = pending \o e.rows
                /\ idx' = idx + 1
                /\ pc' = pc
           ELSE /\ pending' = <<>>
                /\ idx' = idx
                /\ pc' = "failed"
    /\ UNCHANGED <<sessions, clock, response, points, orders, resp, preRun, prevResponse, created, ingested, call>>

\* line 151: the rows added by the loop are committed
Commit ==
    /\ pc = "cleared"
    /\ idx = Len(response.text.entries)
    /\ points' = points \o pending
    /\ pending' = <<>>
    /\ pc' = "committed"
    /\ ingested' = TRUE
    /\ UNCHANGED <<sessions, clock, response, idx, orders, resp, preRun, prevResponse, created, call>>

\* lines 127 and 151: a commit raises (the database file is locked or cannot be
\* written); SQLite leaves the file as it was and the startup fails
CommitRaises ==
    /\ pc \in {"parsed", "cleared"}
    /\ pc = "cleared" => idx = Len(response.text.entries)
    /\ pending' = <<>>
    /\ pc' = "failed"
    /\ UNCHANGED <<sessions, clock, response, idx, points, orders, resp, preRun, prevResponse, created, ingested, call>>

\* The position of lifespan's `yield`: the application starts to handle requests there.
YieldsBeforeCommit == pc \in {"cleared", "committed"}

YieldsAfterCommit == pc = "committed"

\* line 162
Yield ==
    /\ YieldsAfterCommit
    /\ pc' = "serving"
    /\ UNCHANGED <<sessions, clock, response, idx, pending, points, orders, resp, preRun, prevResponse, created, ingested, call>>

\* The process ends and the service is started again on the same database file.
Restart ==
    /\ pc \in {"serving", "failed"}
    /\ pc' = "boot"
    /\ response' = NoResponse
    /\ idx' = 0
    /\ pending' = <<>>
    /\ resp' = NoResp
    /\ preRun' = points
    /\ prevResponse' = response
    /\ ingested' = FALSE
    /\ UNCHANGED <<sessions, clock, points, orders, created, call>>

\* Another process (the repository's test scripts open the same file) reads the
\* committed ChartDataPoint table while this one is starting up.
ExternalRead ==
    /\ pc \in {"fetched", "parsed", "cleared", "committed"}
    /\ resp' = Reply("external_read", 200, [rows |-> points])
    /\ UNCHANGED <<sessions, clock, pc, response, idx, pending, points, orders, preRun, prevResponse, created, ingested, call>>

(***************************************************************************)
(* The endpoints.  A handler runs only once lifespan has reached its       *)
(* yield (app = FastAPI(lifespan=lifespan)).                               *)
(***************************************************************************)
\* The root handler answering an empty table with a curve that has no points.
ReadRootEmptyCurve(rows) ==
    IF rows = <<>>
    THEN Reply("read_root", 200, [date |-> D_NEW, chart_data |-> <<>>])
    ELSE LET latest_date == LatestDate(rows)
         IN  Reply("read_root", 200,
                   [date |-> latest_date,
                    chart_data |-> SortChartData(ChartData(RowsOfDate(rows, latest_date)))])

\* The root handler without the selection of the rows of the latest date.
ReadRootAllRows(rows) ==
    IF rows = <<>>
    THEN Reply("read_root", 200, [error |-> "No treasury data found"])
    ELSE Reply("read_root", 200,
               [date |-> LatestDate(rows), chart_data |-> SortChartData(ChartData(rows))])

\* lines 178-213: the response of GET / on a table
ReadRoot(rows) ==
    IF rows = <<>>
    THEN Reply("read_root", 200, [error |-> "No treasury data found"])
    ELSE LET latest_date == LatestDate(rows)
         IN  Reply("read_root", 200,
                   [date |-> latest_date,
                    chart_data |-> SortChartData(ChartData(RowsOfDate(rows, latest_date)))])

\* lines 225-250: the response of GET /treasury/{date} on a table
ReadTreasuryByDate(rows, date) ==
    LET chart_data_points == RowsOfDate(rows, date)
    IN  IF chart_data_points = <<>>
        THEN Reply("read_treasury_by_date", 404,
                   [detail |-> "No data found for specified date", date |-> date])
        ELSE Reply("read_treasury_by_date", 200,
                   [date |-> date,
                    chart_data |-> SortChartData(ChartData(chart_data_points))])

\* GET /
read_root ==
    /\ pc = "serving"
    /\ resp' = ReadRoot(points)
    /\ UNCHANGED <<sessions, clock, pc, response, idx, pending, points, orders, preRun, prevResponse, created, ingested, call>>

\* GET /treasury/{date}
read_treasury_by_date(date) ==
    /\ pc = "serving"
    /\ resp' = ReadTreasuryByDate(points, date)
    /\ UNCHANGED <<sessions, clock, pc, response, idx, pending, points, orders, preRun, prevResponse, created, ingested, call>>

\* GET /treasury/dates/
read_available_dates ==
    /\ pc = "serving"
    /\ resp' = Reply("read_available_dates", 200,
                     [dates |-> DatesDescending({points[i].date : i \in DOMAIN points})])
    /\ UNCHANGED <<sessions, clock, pc, response, idx, pending, points, orders, preRun, prevResponse, created, ingested, call>>

\* GET /treasury/?offset=&limit=
read_all_chart_data(offset, limit) ==
    /\ pc = "serving"
    /\ \E page \in AllChartDataPages(points, offset, limit) :
          resp' = Reply("read_all_chart_data", 200,
                        [rows |-> page, offset |-> offset, limit |-> limit])
    /\ UNCHANGED <<sessions, clock, pc, response, idx, pending, points, orders, preRun, prevResponse, created, ingested, call>>

\* The orders listing deleting the rows it has returned.
get_orders_consuming(offset, limit) ==
    /\ pc = "serving"
    /\ \E page \in OrderPages(orders, offset, limit) :
          /\ resp' = Reply("get_orders", 200,
                           [orders |-> page, offset |-> offset, limit |-> limit])
          /\ orders' = SelectSeq(orders, LAMBDA o : o \notin Range(page))
    /\ UNCHANGED <<sessions, clock, pc, response, idx, pending, points, preRun, prevResponse, created, ingested, call>>

\* GET /orders/?offset=&limit=
get_orders(offset, limit) ==
    /\ pc = "serving"
    /\ \E page \in OrderPages(orders, offset, limit) :
          resp' = Reply("get_orders", 200,
                        [orders |-> page, offset |-> offset, limit |-> limit])
    /\ UNCHANGED <<sessions, clock, pc, response, idx, pending, points, orders, preRun, prevResponse, created, ingested, call>>

\* The query parameters tried: the defaults (0 and 100) and a one-row page
OffsetPool == {0, 1}

LimitPool == {1, 100}

\* line 319
IssueDate(latest_date) == SplitT(latest_date)

\* lines 322-332: the Order row as stored, id assigned by the table
NewOrder(order_data, term_exists, issue_date, maturity_date, now, rows) ==
    [id |-> Len(rows) + 1,
     term |-> order_data.term,
     yield_value |-> term_exists.yield_value,
     quantity |-> order_data.quantity,
     issue_date |-> issue_date,
     purchase_timestamp |-> now,
     maturity_date |-> maturity_date]

\* OrderCreate(**body): the two declared fields; any other key of the request
\* body (a submitted yield) is ignored
OrderCreate(request) == [term |-> request.term, quantity |-> request.quantity]

\* create_order with the row added and committed before the term is looked up
create_order_insert_first(request, now) ==
    LET order_data == OrderCreate(request)
        errs == OrderCreateErrors(order_data)
        early == Append(orders, [id |-> Len(orders) + 1, term |-> order_data.term,
                                 yield_value |-> 0, quantity |-> order_data.quantity,
                                 issue_date |-> D_NEW, purchase_timestamp |-> now,
                                 maturity_date |-> D_NEW])
    IN  IF errs # {}
        THEN {[resp |-> Reply("create_order", 422, [errors |-> errs, request |-> request]),
               orders |-> orders]}
        ELSE IF points = <<>>
        THEN {[resp |-> Reply("create_order", 400, [detail |-> "No treasury data available", request |-> request]),
               orders |-> early]}
        ELSE {[resp |-> Reply("create_order", 400, [detail |-> "Term not available in current treasury data", request |-> request]),
               orders |-> early]}

\* create_order with the submitted yield stored in place of the market yield.
create_order_storing_submitted_yield(request, now) ==
    LET order_data == OrderCreate(request)
        errs == OrderCreateErrors(order_data)
    IN  IF errs # {}
        THEN {[resp |-> Reply("create_order", 422, [errors |-> errs, request |-> request]),
               orders |-> orders]}
        ELSE IF points = <<>>
        THEN {[resp |-> Reply("create_order", 400, [detail |-> "No treasury data available", request |-> request]),
               orders |-> orders]}
        ELSE LET latest_date == LatestDate(points)
                 matching == RowsOfDateTerm(points, latest_date, order_data.term)
             IN  IF matching = {}
                 THEN {[resp |-> Reply("create_order", 400, [detail |-> "Term not available in current treasury data", request |-> request]),
                        orders |-> orders]}
                 ELSE {LET term_exists == IF request.yield = None THEN points[i]
                                          ELSE [points[i] EXCEPT !.yield_value = request.yield[1]]
                           issue_date == IssueDate(latest_date)
                           maturity_date == calculate_maturity_date(issue_date, order_data.term)
                       IN  IF maturity_date = None \/ order_data.quantity.nan
                           THEN [resp |-> Reply("create_order", 500, [detail |-> "Internal Server Error", request |-> request]),
                                 orders |-> orders]
                           ELSE LET db_order == NewOrder(order_data, term_exists, issue_date,
                                                         maturity_date[1], now, orders)
                                IN  [resp |-> Reply("create_order", 200, [order |-> db_order, request |-> request]),
                                     orders |-> Append(orders, db_order)]
                       : i \in matching}

\* POST /orders/: the set of outcomes [resp, orders] the handler can end in for
\* this request body and this reading of the clock.  A 500 is the response to an
\* exception the handler does not catch: the ValueError of
\* calculate_maturity_date, or the IntegrityError of the commit when the
\* quantity is NaN (SQLite stores NaN as NULL and the column is NOT NULL).
create_order(request, now) ==
    LET order_data == OrderCreate(request)
        errs == OrderCreateErrors(order_data)
    IN  IF errs # {}
        THEN {[resp |-> Reply("create_order", 422, [errors |-> errs, request |-> request]),
               orders |-> orders]}
        ELSE IF points = <<>>
        THEN {[resp |-> Reply("create_order", 400, [detail |-> "No treasury data available", request |-> request]),
               orders |-> orders]}
        ELSE LET latest_date == LatestDate(points)
                 matching == RowsOfDateTerm(points, latest_date, order_data.term)
             IN  IF matching = {}
                 THEN {[resp |-> Reply("create_order", 400, [detail |-> "Term not available in current treasury data", request |-> request]),
                        orders |-> orders]}
                 ELSE {LET term_exists == points[i]
                           issue_date == IssueDate(latest_date)
                           maturity_date == calculate_maturity_date(issue_date, order_data.term)
                       IN  IF maturity_date = None \/ order_data.quantity.nan
                           THEN [resp |-> Reply("create_order", 500, [detail |-> "Internal Server Error", request |-> request]),
                                 orders |-> orders]
                           ELSE LET db_order == NewOrder(order_data, term_exists, issue_date,
                                                         maturity_date[1], now, orders)
                                IN  [resp |-> Reply("create_order", 200, [order |-> db_order, request |-> request]),
                                     orders |-> Append(orders, db_order)]
                       : i \in matching}

TermPool == {"10Y", "1m", "INVALID"}

\* Parsed JSON numbers: zero, the largest accepted quantity, the next one above
\* it, and NaN (which Python's json module reads)
QuantityPool == {Quantity(0, 0), Quantity(MaxQuantity, 0), Quantity(MaxQuantity, 1), NaN}

\* The yield the repository's test_yield_validation submits when the market
\* yield is 4.20: five percentage points above it
FarOffYield == 920

\* The yields the repository's tests submit with a request: far from the market
\* yield, negative (-1.0) and excessive (100.0)
SubmittedYields == {FarOffYield, 0 - 100, 10000}

\* The request bodies: term and quantity alone, and some with a "yield" key too
OrderInputs ==
    [term : TermPool, quantity : QuantityPool, yield : {None}]
    \cup [term : {"1m"}, quantity : {Quantity(MaxQuantity, 0)}, yield : {Some(y) : y \in SubmittedYields}]

\* One request handled by create_order, the clock reading one of `times`
CreateOrderAt(times) ==
    /\ pc = "serving"
    /\ \E request \in OrderInputs, now \in times :
         \E out \in create_order(request, now) :
            /\ Len(out.orders) <= MaxOrders
            /\ resp' = out.resp
            /\ orders' = out.orders
            /\ created' = IF out.resp.status = 200
                           THEN created \cup {out.resp.body.order}
                           ELSE created
    /\ UNCHANGED <<sessions, clock, pc, response, idx, pending, points, preRun, prevResponse, ingested, call>>

CreateOrder == CreateOrderAt(Clock)

DatePool == {D_OLD, D_NEW, SplitT(D_NEW)}

(***************************************************************************)
(* Spec: one process, started on a new database file, from its startup to  *)
(* the curve reads and the order requests it serves.  The reading of the   *)
(* clock matters to the order of the orders listing only, which is not     *)
(* called here: every order is created at the same instant.                *)
(***************************************************************************)
Next ==
    \/ Fetch
    \/ FetchRaises
    \/ Parse
    \/ ClearExisting
    \/ IngestEntry
    \/ Commit
    \/ CommitRaises
    \/ Yield
    \/ ExternalRead
    \/ read_root
    \/ \E date \in DatePool : read_treasury_by_date(date)
    \/ CreateOrderAt({Instant})

Spec == Init /\ [][Next]_vars

(***************************************************************************)
(* SpecRestart: the startup ingestion run again and again on the same      *)
(* database file, each run with a document of its own, with readers of the *)
(* file in other processes, no request traffic, and a store whose commits  *)
(* all succeed.                                                            *)
(***************************************************************************)
NextRestart ==
    \/ Fetch
    \/ FetchRaises
    \/ Parse
    \/ ClearExisting
    \/ IngestEntry
    \/ Commit
    \/ Yield
    \/ Restart
    \/ ExternalRead

SpecRestart == Init /\ [][NextRestart]_vars

(***************************************************************************)
(* SpecLedger: a process started on a database file that an earlier        *)
(* process has left with one day's curve and one booked order; the feed    *)
(* has a date and a text in every field of its entries, and every endpoint *)
(* of the service is called.                                               *)
(***************************************************************************)
EarlierPoints ==
    transform_and_store_treasury_data(D_NEW, <<<<"BC_1MONTH", Some(420)>>, <<"BC_10YEAR", Some(411)>>>>)

EarlierOrder ==
    NewOrder([term |-> "1m", quantity |-> Quantity(MaxQuantity, 0)], EarlierPoints[1],
             IssueDate(D_NEW), calculate_maturity_date(IssueDate(D_NEW), "1m")[1], 1, <<>>)

LedgerEntries ==
    {e \in EntryPool \ {None} :
        /\ DateValue(e[1]) # None
        /\ \A i \in DOMAIN e[1] : e[1][i][2] # None}

LedgerResponses ==
    {[status_code |-> 200, text |-> d] :
        d \in {NotXml} \cup {Feed(es) : es \in SeqsUpTo(LedgerEntries, MaxEntries)}}

InitLedger ==
    /\ pc = "boot"
    /\ response = NoResponse
    /\ idx = 0
    /\ pending = <<>>
    /\ points = EarlierPoints
    /\ orders = <<EarlierOrder>>
    /\ resp = NoResp
    /\ preRun = EarlierPoints
    /\ ingested = FALSE
    /\ prevResponse = NoResponse
    /\ created = {EarlierOrder}
    /\ call = [fn |-> "none"]
    /\ sessions = [w \in Workers |-> Idle]
    /\ clock = Instant

NextLedger ==
    \/ FetchFrom(LedgerResponses)
    \/ FetchRaises
    \/ Parse
    \/ ClearExisting
    \/ IngestEntry
    \/ Commit
    \/ CommitRaises
    \/ Yield
    \/ read_root
    \/ \E date \in DatePool : read_treasury_by_date(date)
    \/ read_available_dates
    \/ \E offset \in OffsetPool, limit \in LimitPool : read_all_chart_data(offset, limit)
    \/ CreateOrder
    \/ \E offset \in OffsetPool, limit \in LimitPool : get_orders(offset, limit)

SpecLedger == InitLedger /\ [][NextLedger]_vars

(***************************************************************************)
(* SpecConcurrent: the serving process with several create_order requests  *)
(* in flight.  A request is handled in two steps: everything up to         *)
(* session.add (the reads, the maturity date, the Order object with its    *)
(* purchase_timestamp read from the clock), then session.commit, where the *)
(* table assigns the id.  The clock never goes back.                       *)
(***************************************************************************)
ConcurrentInputs ==
    [term : TermPool, quantity : {Quantity(MaxQuantity, 0)}, yield : {None}]

\* The wall clock advances
Tick ==
    /\ pc = "serving"
    /\ clock + 1 \in Clock
    /\ clock' = clock + 1
    /\ UNCHANGED <<pc, response, idx, pending, points, orders, resp, preRun, ingested, prevResponse,
                   created, call, sessions>>

\* lines 291-330 in thread w: a rejected request is answered at once, an
\* accepted one leaves the Order in the session of the thread, its id not yet
\* assigned (0 stands for None)
BeginOrder(w) ==
    /\ pc = "serving"
    /\ sessions[w] = Idle
    /\ \E request \in ConcurrentInputs :
         \E out \in create_order(request, clock) :
            IF out.resp.status = 200
            THEN /\ sessions' = [sessions EXCEPT ![w] = [pc |-> "added", request |-> request,
                                                         db_order |-> [out.resp.body.order EXCEPT !.id = 0]]]
                 /\ resp' = resp
            ELSE /\ resp' = out.resp
                 /\ sessions' = sessions
    /\ UNCHANGED <<pc, response, idx, pending, points, orders, preRun, ingested, prevResponse,
                   created, call, clock>>

\* The commit that gives every row the id 1.
CommitOrderFirstId(w) ==
    /\ pc = "serving"
    /\ sessions[w].pc = "added"
    /\ Len(orders) < MaxOrders
    /\ LET db_order == [sessions[w].db_order EXCEPT !.id = 1]
       IN  /\ orders' = Append(orders, db_order)
           /\ resp' = Reply("create_order", 200, [order |-> db_order, request |-> sessions[w].request])
           /\ created' = created \cup {db_order}
    /\ sessions' = [sessions EXCEPT ![w] = Idle]
    /\ UNCHANGED <<pc, response, idx, pending, points, preRun, ingested, prevResponse, call, clock>>

\* lines 331-334 in thread w: the INSERT gives the row the next id of the table
CommitOrder(w) ==
    /\ pc = "serving"
    /\ sessions[w].pc = "added"
    /\ Len(orders) < MaxOrders
    /\ LET db_order == [sessions[w].db_order EXCEPT !.id = Len(orders) + 1]
       IN  /\ orders' = Append(orders, db_order)
           /\ resp' = Reply("create_order", 200, [order |-> db_order, request |-> sessions[w].request])
           /\ created' = created \cup {db_order}
    /\ sessions' = [sessions EXCEPT ![w] = Idle]
    /\ UNCHANGED <<pc, response, idx, pending, points, preRun, ingested, prevResponse, call, clock>>

\* line 331 raising in thread w (the database file is locked by another
\* writer for longer than the busy timeout): a 500 and no row
CommitOrderRaises(w) ==
    /\ pc = "serving"
    /\ sessions[w].pc = "added"
    /\ resp' = Reply("create_order", 500, [detail |-> "Internal Server Error", request |-> sessions[w].request])
    /\ sessions' = [sessions EXCEPT ![w] = Idle]
    /\ UNCHANGED <<pc, response, idx, pending, points, orders, preRun, ingested, prevResponse,
                   created, call, clock>>

\* The process serves, its table filled by a startup that fetched a document
\* with one entry
InitConcurrent ==
    /\ pc = "serving"
    /\ response = [status_code |-> 200,
                   text |-> Feed(<<Some(<<<<"NEW_DATE", Some(D_NEW)>>, <<"BC_1MONTH", Some("4.20")>>,
                                          <<"BC_10YEAR", Some("4.11")>>>>)>>)]
    /\ idx = 1
    /\ pending = <<>>
    /\ points = EarlierPoints
    /\ orders = <<>>
    /\ resp = NoResp
    /\ preRun = <<>>
    /\ ingested = TRUE
    /\ prevResponse = NoResponse
    /\ created = {}
    /\ call = [fn |-> "none"]
    /\ sessions = [w \in Workers |-> Idle]
    /\ clock = Instant

NextConcurrent ==
    \/ Tick
    \/ \E w \in Workers : BeginOrder(w)
    \/ \E w \in Workers : CommitOrder(w)
    \/ \E w \in Workers : CommitOrderRaises(w)
    \/ \E offset \in OffsetPool, limit \in LimitPool : get_orders(offset, limit)

SpecConcurrent == InitConcurrent /\ [][NextConcurrent]_vars

(***************************************************************************)
(* SpecPure: one direct call of a pure function, as the repository's test  *)
(* scripts call them, on an input drawn from a small set.                  *)
(***************************************************************************)
KeyPool == {"BC_1MONTH", "BC_2YEAR", "BC_10YEAR", "BC_30YEARDISPLAY"}

ValuePool == {None, Some(0), Some(411)}

\* The dicts of at most MaxFields items: sequences of items with distinct keys
RawFieldMappings ==
    {m \in SeqsUpTo(KeyPool \X ValuePool, MaxFields) :
        \A i, j \in DOMAIN m : i # j => m[i][1] # m[j][1]}

FloatPool ==
    {Quantity(-1, 0), Quantity(0, 0), Quantity(0, 1), Quantity(1, 0), Quantity(25000, 0),
     Quantity(MaxQuantity - 1, 999999), Quantity(MaxQuantity, 0), Quantity(MaxQuantity, 1),
     Quantity(15000000, 0), Quantity(50000000, 0), NaN}

CallTransform ==
    /\ call.fn = "none"
    /\ \E date_value \in {D_NEW}, bc_values \in RawFieldMappings :
         call' = [fn |-> "transform_and_store_treasury_data",
                  date_value |-> date_value,
                  bc_values |-> bc_values,
                  added |-> transform_and_store_treasury_data(date_value, bc_values)]
    /\ UNCHANGED <<sessions, clock, pc, response, idx, pending, points, orders, resp, preRun, prevResponse, created, ingested>>

CallValidateQuantity ==
    /\ call.fn = "none"
    /\ \E v \in FloatPool :
         call' = [fn |-> "validate_quantity", v |-> v, accepted |-> validate_quantity(v)]
    /\ UNCHANGED <<sessions, clock, pc, response, idx, pending, points, orders, resp, preRun, prevResponse, created, ingested>>

\* Rows of a table: two dates, two canonical terms and two other terms
RowPool == [date : {D_OLD, D_NEW}, term : {"10Y", "1m", "XX", "ZZ"}, yield_value : {411, 430}]

CallReadRoot ==
    /\ call.fn = "none"
    /\ \E rows \in SeqsUpTo(RowPool, MaxRows) :
         call' = [fn |-> "read_root", rows |-> rows, result |-> ReadRoot(rows)]
    /\ UNCHANGED <<sessions, clock, pc, response, idx, pending, points, orders, resp, preRun, prevResponse, created, ingested>>

CallReadTreasuryByDate ==
    /\ call.fn = "none"
    /\ \E rows \in SeqsUpTo(RowPool, MaxRows), date \in DatePool :
         call' = [fn |-> "read_treasury_by_date", rows |-> rows, date |-> date,
                  result |-> ReadTreasuryByDate(rows, date)]
    /\ UNCHANGED <<sessions, clock, pc, response, idx, pending, points, orders, resp, preRun, prevResponse, created, ingested>>

\* Issue dates: a day late in the year, a leap day, the days before a leap day
\* and before a new year, and a date still carrying its time-of-day suffix
IssueDatePool ==
    {Date(2025, 9, 18, ""), Date(2024, 2, 29, ""), Date(2024, 2, 28, ""),
     Date(2023, 12, 31, ""), Date(2025, 1, 31, ""), D_NEW}

CallCalculateMaturityDate ==
    /\ call.fn = "none"
    /\ \E issue_date \in IssueDatePool, term \in TERM_SET \cup {"XX"} :
         call' = [fn |-> "calculate_maturity_date", issue_date |-> issue_date, term |-> term,
                  result |-> calculate_maturity_date(issue_date, term)]
    /\ UNCHANGED <<sessions, clock, pc, response, idx, pending, points, orders, resp, preRun, prevResponse, created, ingested>>

NextPure ==
    \/ CallCalculateMaturityDate
    \/ CallTransform
    \/ CallValidateQuantity
    \/ CallReadRoot
    \/ CallReadTreasuryByDate

SpecPure == Init /\ [][NextPure]_vars

(***************************************************************************)
(* Properties.                                                             *)
(***************************************************************************)
IsRecognizedNonNull(item) == item[1] \in DOMAIN label_map /\ item[2] # None

\* C1: for every raw field mapping handed to the transformer, the rows it adds
\* are exactly one row (date, LABEL_MAP[key], value) for each field whose key is
\* in LABEL_MAP and whose value is not null, and no row for any other field.
C1_TransformAddsRecognizedNonNull ==
    call.fn = "transform_and_store_treasury_data" =>
        LET items == call.bc_values
            out == call.added
        IN  /\ \A i \in DOMAIN items :
                 IsRecognizedNonNull(items[i]) =>
                    Cardinality({j \in DOMAIN out :
                        out[j] = [date |-> call.date_value,
                                  term |-> label_map[items[i][1]],
                                  yield_value |-> items[i][2][1]]}) = 1
            /\ Len(out) = Cardinality({i \in DOMAIN items : IsRecognizedNonNull(items[i])})

\* C1 witness: a mapping with a null field, an unrecognized key and a recognized
\* field of value 0.0 has been transformed into a single row.
C1_Witness ==
    /\ call.fn = "transform_and_store_treasury_data"
    /\ \E i, j, k \in DOMAIN call.bc_values :
          /\ call.bc_values[i] = <<"BC_10YEAR", None>>
          /\ call.bc_values[j][1] = "BC_30YEARDISPLAY"
          /\ call.bc_values[k] = <<"BC_1MONTH", Some(0)>>
    /\ call.added = <<[date |-> D_NEW, term |-> "1m", yield_value |-> 0]>>

InRange(v) ==
    /\ ~v.nan
    /\ v.int > 0 \/ (v.int = 0 /\ v.frac > 0)
    /\ v.int < MaxQuantity \/ (v.int = MaxQuantity /\ v.frac = 0)

\* C5: the quantity validator accepts exactly the quantities q with
\* 0 < q <= 10,000,000.
C5_AcceptsExactlyTheRange ==
    call.fn = "validate_quantity" => (call.accepted <=> InRange(call.v))

RECURSIVE AllRows(_)
\* The rows a document yields when every entry of it is ingested.
AllRows(entries) ==
    IF entries = <<>> THEN <<>>
    ELSE EntryRows(Head(entries)).rows \o AllRows(Tail(entries))

\* C2: for every date present in the store, by_date(date) returns terms that all
\* belong to TERM_SET, each term at most once.
C2_ByDateTermsUniqueInTermSet ==
    (resp.op = "read_treasury_by_date" /\ resp.status = 200) =>
        LET chart_data == resp.body.chart_data
        IN  /\ \A i \in DOMAIN chart_data : chart_data[i].term \in TERM_SET
            /\ \A i, j \in DOMAIN chart_data :
                  i # j => chart_data[i].term # chart_data[j].term

\* C3: every successful create_order stores an Order whose issue_date is the date
\* portion of the greatest date of the CurvePoint table and whose yield_value is
\* the yield_value of a CurvePoint stored for that date and the order's term.
C3_OrderTakesLatestDateAndItsYield ==
    (resp.op = "create_order" /\ resp.status = 200) =>
        LET o == resp.body.order
        IN  /\ orders # <<>>
            /\ orders[Len(orders)] = o
            /\ o.term = resp.body.request.term
            /\ \E i \in DOMAIN points :
                  /\ \A j \in DOMAIN points : ~StrLess(points[i].date, points[j].date)
                  /\ o.issue_date = Date(points[i].date.y, points[i].date.m, points[i].date.d, "")
                  /\ points[i].term = o.term
                  /\ points[i].yield_value = o.yield_value

\* C3 witness: an order for 10Y was created while the table held an older date
\* too; its issue date is the latest date without the time-of-day suffix.
C3_Witness ==
    /\ resp.op = "create_order"
    /\ resp.status = 200
    /\ resp.body.order.term = "10Y"
    /\ resp.body.order.issue_date = Date(2025, 9, 18, "")
    /\ resp.body.order.yield_value = 411
    /\ \E i, j \in DOMAIN points : points[i].date = D_OLD /\ points[j].date = D_NEW

\* The first check of create_order that fails for a request in the current state.
FirstFailingCheck(request) ==
    IF request.term \notin TERM_SET THEN "term"
    ELSE IF LeqZero(request.quantity) \/ GtMax(request.quantity) THEN "quantity"
    ELSE IF points = <<>> THEN "no_data"
    ELSE IF ~\E i \in DOMAIN points :
                /\ \A j \in DOMAIN points : ~StrLess(points[i].date, points[j].date)
                /\ points[i].term = request.term
         THEN "unknown_term"
    ELSE "none"

\* What a create_order response reports as failed.
ReportedChecks(r) ==
    IF r.status = 422 THEN r.body.errors
    ELSE IF r.status = 400 /\ r.body.detail = "No treasury data available" THEN {"no_data"}
    ELSE IF r.status = 400 THEN {"unknown_term"}
    ELSE {}

StatusOfCheck(c) ==
    CASE c \in {"term", "quantity"} -> {422}
      [] c \in {"no_data", "unknown_term"} -> {400}
      [] OTHER -> {200, 500}

C6_RejectionChangesNothing ==
    [][(resp'.op = "create_order" /\ resp'.status # 200)
        => (orders' = orders /\ points' = points)]_vars

\* C6 witness: a request was rejected for a term the latest date does not have,
\* with rows in both tables.
C6_Witness ==
    /\ resp.op = "create_order"
    /\ resp.status = 400
    /\ resp.body.detail = "Term not available in current treasury data"
    /\ orders # <<>>
    /\ points # <<>>

\* C7: the startup replace-all is atomic: after a run that fails the store holds
\* the rows it held before the run, and after a run that succeeds it holds all
\* the rows of the run's document.
C7_ReplaceAllIsAtomic ==
    /\ pc = "failed" => points = preRun
    /\ pc \in {"committed", "serving"} => points = AllRows(response.text.entries)

\* C8: a reader of the table concurrent with an ingestion run observes the
\* complete contents of before the run or the complete contents of after it.
C8_ReaderSeesOldOrNew ==
    resp.op = "external_read" =>
        \/ resp.body.rows = preRun
        \/ resp.body.rows = AllRows(response.text.entries)

\* C9: no read request and no order-creation request is handled before the
\* startup ingestion of the process has committed its rows.
C9_NoRequestBeforeIngestion ==
    /\ resp.op \in ServiceOps => ingested
    /\ pc = "serving" => ingested /\ pending = <<>>

\* C9 witness: an order was created and a curve was read by the serving process.
C9_Witness ==
    /\ pc = "serving"
    /\ resp.op = "read_root"
    /\ orders # <<>>

\* C10: the process never reaches the serving state with a CurvePoint table that
\* is empty or holds only part of the document's rows.
C10_NeverServesEmptyOrPartial ==
    pc = "serving" =>
        /\ points # <<>>
        /\ points = AllRows(response.text.entries)

RECURSIVE BcValuesNullingMalformed(_, _, _)
\* The BC_ fields of an entry as the contract of the parser describes them: a
\* field whose text is absent or is not a number is null.
BcValuesNullingMalformed(props, i, acc) ==
    IF i > Len(props) THEN acc
    ELSE LET tag == props[i][1]
             text == props[i][2]
         IN  IF ~StartsWithBC(tag) THEN BcValuesNullingMalformed(props, i + 1, acc)
             ELSE IF text = None \/ text[1] \notin DOMAIN NumericText
                  THEN BcValuesNullingMalformed(props, i + 1, DictSet(acc, tag, None))
                  ELSE BcValuesNullingMalformed(props, i + 1,
                                                DictSet(acc, tag, Some(NumericText[text[1]])))

RowsNullingMalformed(entry) ==
    IF entry = None THEN <<>>
    ELSE LET date_value == DateValue(entry[1])
         IN  IF date_value = None THEN <<>>
             ELSE ChartPointsOf(date_value[1],
                                SelectSeq(BcValuesNullingMalformed(entry[1], 1, <<>>),
                                          IsRecognizedNonNull))

\* C11: every step of the ingestion loop over an entry goes on to the next
\* entry, having added the rows of the entry's BC_ fields with a field whose
\* text is absent or non-numeric taken as null: no such field aborts the run.
C11_MalformedFieldYieldsNull ==
    [][(pc = "cleared" /\ idx < Len(response.text.entries) /\ (pc' # pc \/ idx' # idx))
        => /\ pc' = "cleared"
           /\ idx' = idx + 1
           /\ pending' = pending \o RowsNullingMalformed(response.text.entries[idx + 1])]_vars

\* Equality of two tables as multisets of rows.
SameMultiset(a, b) ==
    \A r \in Range(a) \cup Range(b) :
        Cardinality({i \in DOMAIN a : a[i] = r}) = Cardinality({i \in DOMAIN b : b[i] = r})

\* C12: when the ingestion has run to its end (success or failure) on the
\* response the process before it had fetched too, the CurvePoint table holds the
\* same multiset of rows as that earlier run left.
C12_RerunLeavesSameRows ==
    (pc \in {"committed", "serving", "failed"} /\ response # NoResponse /\ prevResponse = response)
        => SameMultiset(points, preRun)

\* C12 witness: a second run on the same two-entry document has committed, over
\* the rows the first run had left.
C12_Witness ==
    /\ pc = "committed"
    /\ prevResponse = response
    /\ Len(response.text.entries) = 2
    /\ Len(preRun) >= 3
    /\ Len(points) >= 3

\* C13: a listing of the orders whose window covers the whole table returns
\* every Order that create_order has created, with the same id, term and
\* quantity, and with the maturity date that the maturity function gives for its
\* issue date and term.
C13_CreatedOrdersAreListed ==
    (resp.op = "get_orders" /\ resp.body.offset = 0 /\ resp.body.limit >= Len(orders)) =>
        \A o \in created :
            \E k \in DOMAIN resp.body.orders :
                LET r == resp.body.orders[k]
                IN  /\ r.id = o.id
                    /\ r.term = o.term
                    /\ r.quantity = o.quantity
                    /\ r.maturity_date = o.maturity_date
                    /\ Some(r.maturity_date) = calculate_maturity_date(r.issue_date, r.term)

\* C13 witness: two orders were created at different times, of a month term and
\* of a year term, and the default listing returned both, the later one first.
C13_Witness ==
    /\ resp.op = "get_orders"
    /\ resp.body.offset = 0
    /\ resp.body.limit = 100
    /\ Cardinality(created) = 2
    /\ Len(resp.body.orders) = 2
    /\ resp.body.orders[1].id = 2
    /\ resp.body.orders[2].id = 1
    /\ {resp.body.orders[1].term, resp.body.orders[2].term} = {"1m", "10Y"}

\* C14: no step of the service removes an Order from the ledger or changes one
\* of its fields: the Order table after a step is the table before it, with at
\* most new rows after the old ones.
C14_LedgerOnlyGrows ==
    [][/\ Len(orders') >= Len(orders)
       /\ SubSeq(orders', 1, Len(orders)) = orders]_vars

\* C14 witness: the process was started on a file that held an order, ran its
\* ingestion, created a second order and listed the orders.
C14_Witness ==
    /\ pc = "serving"
    /\ Len(orders) = 2
    /\ orders[1] = EarlierOrder
    /\ resp.op = "get_orders"

\* C15: every row of the Order table has a term of TERM_SET and a quantity q
\* with 0 < q <= 10,000,000.
C15_StoredOrdersAreValid ==
    \A i \in DOMAIN orders :
        /\ orders[i].term \in TERM_SET
        /\ InRange(orders[i].quantity)

\* C15 witness: the table holds an order of the largest quantity, and a request
\* with a NaN quantity has just been answered without a row being stored.
C15_Witness ==
    /\ Len(orders) = 1
    /\ orders[1].quantity = Quantity(MaxQuantity, 0)
    /\ resp.op = "create_order"
    /\ resp.body.request.quantity = NaN
    /\ resp.status = 500

\* C16: the response of GET / on an empty CurvePoint table is an error result:
\* its body has an error message and neither a date nor chart data.
C16_LatestOnEmptyIsError ==
    (resp.op = "read_root" /\ points = <<>>) => DOMAIN resp.body = {"error"}

\* C16 witness: the serving process has an empty table and has answered GET /.
C16_Witness ==
    /\ pc = "serving"
    /\ points = <<>>
    /\ resp.op = "read_root"
    /\ resp.body.error = "No treasury data found"

\* The canonical TERM_SET order; a term outside it comes after all of them.
CanonicalOrder == <<"1m", "1.5m", "2m", "3m", "4m", "6m", "1Y", "2Y", "3Y", "5Y", "7Y", "10Y", "20Y", "30Y">>

CanonicalIndex(term) ==
    IF \E i \in DOMAIN CanonicalOrder : CanonicalOrder[i] = term
    THEN CHOOSE i \in DOMAIN CanonicalOrder : CanonicalOrder[i] = term
    ELSE Len(CanonicalOrder) + 1

IsOutsideTermSet(item) == item.term \notin TERM_SET

\* C17: on a table with a row for the selected date (the greatest date of the
\* table for GET /, the given date for GET /treasury/{date}), the handler answers
\* with that date and with exactly the points stored for it, in the canonical
\* TERM_SET order, the terms outside TERM_SET last and in their stored order.
C17_ReadsReturnTheDatesPointsInOrder ==
    (/\ call.fn \in {"read_root", "read_treasury_by_date"}
     /\ call.rows # <<>>
     /\ call.fn = "read_treasury_by_date" => \E i \in DOMAIN call.rows : call.rows[i].date = call.date)
    => LET rows == call.rows
           selected == IF call.fn = "read_root"
                       THEN CHOOSE d \in {rows[i].date : i \in DOMAIN rows} :
                                \A i \in DOMAIN rows : ~StrLess(d, rows[i].date)
                       ELSE call.date
           stored == SelectSeq(rows, LAMBDA r : r.date = selected)
           expected == [i \in DOMAIN stored |-> [term |-> stored[i].term, Yield |-> stored[i].yield_value]]
           chart_data == call.result.body.chart_data
       IN  /\ call.result.status = 200
           /\ call.result.body.date = selected
           /\ SameMultiset(chart_data, expected)
           /\ \A i, j \in DOMAIN chart_data :
                 i < j => CanonicalIndex(chart_data[i].term) <= CanonicalIndex(chart_data[j].term)
           /\ SelectSeq(chart_data, IsOutsideTermSet) = SelectSeq(expected, IsOutsideTermSet)

\* C17 witness: GET / on a table of three rows, one of an older date, returned the
\* two points of the latest date, the canonical term before the two others.
C17_Witness ==
    /\ call.fn = "read_root"
    /\ Len(call.rows) = 3
    /\ call.rows[1].term = "ZZ" /\ call.rows[1].date = D_NEW
    /\ call.rows[2].date = D_OLD
    /\ call.rows[3].term = "1m" /\ call.rows[3].date = D_NEW
    /\ Len(call.result.body.chart_data) = 2
    /\ call.result.body.chart_data[1].term = "1m"
    /\ call.result.body.chart_data[2].term = "ZZ"

\* C18: GET /treasury/{date} answers 404 exactly when the CurvePoint table has
\* no row whose date equals the given date, and 200 otherwise.
C18_ByDate404IffNoRow ==
    resp.op = "read_treasury_by_date" =>
        /\ resp.status \in {200, 404}
        /\ resp.status = 404 <=> ~\E i \in DOMAIN points : points[i].date = resp.body.date

\* C18 witness: a table with rows of 2025-09-18T00:00:00 was asked for
\* 2025-09-18 and answered 404.
C18_Witness ==
    /\ resp.op = "read_treasury_by_date"
    /\ resp.status = 404
    /\ resp.body.date = SplitT(D_NEW)
    /\ \E i \in DOMAIN points : points[i].date = D_NEW

\* C19: a step that ends with the response of a read operation (latest, by
\* date, dates, paginated rows, orders) leaves the CurvePoint table and the
\* Order table as they were.
C19_ReadsChangeNoTable ==
    [][resp'.op \in ReadOps => (points' = points /\ orders' = orders)]_vars

\* C19 witness: the paginated rows were read from the second row on, with rows in
\* both tables.
C19_Witness ==
    /\ resp.op = "read_all_chart_data"
    /\ resp.body.offset = 1
    /\ resp.body.rows # <<>>
    /\ orders # <<>>

\* The yields stored for the latest date and the term of a request.
MarketYields(request) ==
    {points[i].yield_value :
        i \in {j \in DOMAIN points :
                  /\ \A k \in DOMAIN points : ~StrLess(points[j].date, points[k].date)
                  /\ points[j].term = request.term}}

\* C20: a request that submits a yield five percentage points away from the
\* market yield of its term is answered 400 and stores no order.
C20_FarOffYieldRejected ==
    (/\ resp.op = "create_order"
     /\ resp.body.request.yield # None
     /\ MarketYields(resp.body.request) # {}
     /\ \A m \in MarketYields(resp.body.request) :
           resp.body.request.yield[1] - m \in {500, 0 - 500})
    => /\ resp.status = 400
       /\ "order" \notin DOMAIN resp.body

\* The yields of the range (0, 50], in hundredths.
YieldInRange(y) == 0 < y /\ y <= 5000

\* C21: a request that submits a yield outside (0, 50] is answered 422 and
\* creates no order (stated for the requests whose term the latest date has: the
\* other requests of the kind are rejected for their term).
C21_YieldOutOfRangeRejected ==
    (/\ resp.op = "create_order"
     /\ resp.body.request.yield # None
     /\ ~YieldInRange(resp.body.request.yield[1])
     /\ MarketYields(resp.body.request) # {})
    => /\ resp.status = 422
       /\ "order" \notin DOMAIN resp.body

\* An outcome of create_order without the echo of the request.
OutcomeOf(out) ==
    [status |-> out.resp.status,
     body |-> [k \in DOMAIN out.resp.body \ {"request"} |-> out.resp.body[k]],
     orders |-> out.orders]

YearsOfTerm(term) ==
    CASE term = "1Y" -> 1 [] term = "2Y" -> 2 [] term = "3Y" -> 3 [] term = "5Y" -> 5
      [] term = "7Y" -> 7 [] term = "10Y" -> 10 [] term = "20Y" -> 20 [] term = "30Y" -> 30
      [] OTHER -> 0

\* C25: for a year-denominated term NY and an issue date other than February 29,
\* the maturity date is the issue date with its year increased by N, the month
\* and the day unchanged, and no time-of-day suffix.
C25_YearTermKeepsMonthAndDay ==
    (/\ call.fn = "calculate_maturity_date"
     /\ YearsOfTerm(call.term) > 0
     /\ ~(call.issue_date.m = 2 /\ call.issue_date.d = 29))
    => call.result = Some(Date(call.issue_date.y + YearsOfTerm(call.term),
                               call.issue_date.m, call.issue_date.d, ""))

\* C25 witness: 2025-09-18 with 10Y gave 2035-09-18.
C25_Witness ==
    /\ call.fn = "calculate_maturity_date"
    /\ call.issue_date = Date(2025, 9, 18, "")
    /\ call.term = "10Y"
    /\ call.result = Some(Date(2035, 9, 18, ""))

\* The number of days of a month-denominated term of TERM_SET, 0 for any other term.
DaysOfTerm(term) ==
    CASE term = "1m" -> 30 [] term = "1.5m" -> 45 [] term = "2m" -> 60
      [] term = "3m" -> 90 [] term = "4m" -> 120 [] term = "6m" -> 180
      [] OTHER -> 0

\* The number of the day of a date, counted from 1970-01-01 in the proleptic
\* Gregorian calendar.
DayNumber(date) ==
    LET y == IF date.m <= 2 THEN date.y - 1 ELSE date.y
        era == y \div 400
        yoe == y - era * 400
        mp == (date.m + 9) % 12
        doy == (153 * mp + 2) \div 5 + date.d - 1
        doe == yoe * 365 + yoe \div 4 - yoe \div 100 + doy
    IN  era * 146097 + doe - 719468

IsCalendarDate(date) ==
    /\ date.m \in 1..12
    /\ date.d >= 1
    /\ date.d <= (CASE date.m \in {4, 6, 9, 11} -> 30
                    [] date.m = 2 -> IF (date.y % 4 = 0 /\ date.y % 100 # 0) \/ date.y % 400 = 0
                                     THEN 29 ELSE 28
                    [] OTHER -> 31)

\* C26: for a month-denominated term and any issue date, the maturity date is the
\* calendar date 30, 45, 60, 90, 120 or 180 days after the issue date.
C26_MonthTermAddsThirtyDayMonths ==
    (call.fn = "calculate_maturity_date" /\ DaysOfTerm(call.term) > 0)
    => /\ call.result # None
       /\ IsCalendarDate(call.result[1])
       /\ call.result[1].t = ""
       /\ DayNumber(call.result[1]) = DayNumber(call.issue_date) + DaysOfTerm(call.term)

\* C26 witness: 2023-12-31 with 2m gave the leap day 2024-02-29, across the end
\* of the year.
C26_Witness ==
    /\ call.fn = "calculate_maturity_date"
    /\ call.issue_date = Date(2023, 12, 31, "")
    /\ call.term = "2m"
    /\ call.result = Some(Date(2024, 2, 29, ""))

\* C27: on a non-empty table, the response of the by-date handler for the date
\* that GET / reports has that date, as many chart points as the response of
\* GET / and the same yields for every term.
C27_LatestAgreesWithByDate ==
    (/\ resp.op = "read_treasury_by_date"
     /\ points # <<>>
     /\ resp.body.date = ReadRoot(points).body.date)
    => LET root == ReadRoot(points)
       IN  /\ resp.status = 200
           /\ Len(resp.body.chart_data) = Len(root.body.chart_data)
           /\ SameMultiset(resp.body.chart_data, root.body.chart_data)

\* C27 witness: the table holds two dates and the by-date handler was called
\* with the later one.
C27_Witness ==
    /\ resp.op = "read_treasury_by_date"
    /\ resp.status = 200
    /\ resp.body.date = D_NEW
    /\ \E i \in DOMAIN points : points[i].date = D_OLD

\* C28: after an ingestion run that succeeded, the CurvePoint table holds
\* exactly the rows derived from the document of that run, whatever it held
\* before the run.
C28_StoreIsTheLastDocument ==
    pc \in {"committed", "serving"} => SameMultiset(points, AllRows(response.text.entries))

\* C28 witness: a run committed over a table that held another yield for a date
\* and term of its document, and a date its document does not have.
C28_Witness ==
    /\ pc = "committed"
    /\ points # <<>>
    /\ \E i \in DOMAIN preRun, j \in DOMAIN points :
          /\ preRun[i].date = points[j].date
          /\ preRun[i].term = points[j].term
          /\ preRun[i].yield_value # points[j].yield_value
    /\ \E i \in DOMAIN preRun : \A j \in DOMAIN points : preRun[i].date # points[j].date

\* The requests C29 is about, in a state of the store: valid requests for a
\* year-denominated term that the latest date has, the latest date being a
\* February 29 and the year of the maturity not a leap year.
IsLeapDayRequest(request, rows) ==
    /\ request.term \in TERM_SET
    /\ ~request.quantity.nan
    /\ InRange(request.quantity)
    /\ YearsOfTerm(request.term) > 0
    /\ \E i \in DOMAIN rows :
          /\ \A j \in DOMAIN rows : ~StrLess(rows[i].date, rows[j].date)
          /\ rows[i].date.m = 2
          /\ rows[i].date.d = 29
          /\ rows[i].term = request.term
          /\ LET y == rows[i].date.y + YearsOfTerm(request.term)
             IN  ~((y % 4 = 0 /\ y % 100 # 0) \/ y % 400 = 0)

\* C29: a create_order for such a request ends in a server error and leaves the
\* Order table and the CurvePoint table as they were.
C29_LeapDayOrderFailsCleanly ==
    [][(resp'.op = "create_order" /\ IsLeapDayRequest(resp'.body.request, points))
        => (resp'.status = 500 /\ orders' = orders /\ points' = points)]_vars

\* C29 witness: with an order in the ledger and 2024-02-29 as the latest date, a
\* request for 10Y was answered 500.
C29_Witness ==
    /\ resp.op = "create_order"
    /\ resp.status = 500
    /\ resp.body.request.term = "10Y"
    /\ resp.body.request.quantity = Quantity(MaxQuantity, 0)
    /\ orders # <<>>
    /\ \A i \in DOMAIN points : points[i].date = D_OLD

\* C23: for any two orders of the ledger, the one inserted later (larger id)
\* has a purchase_timestamp that is not smaller than the other's, also when
\* create_order requests run concurrently.
C23_TimestampsFollowInsertionOrder ==
    \A i, j \in DOMAIN orders :
        orders[i].id < orders[j].id =>
            orders[i].purchase_timestamp <= orders[j].purchase_timestamp

RECURSIVE NewestFirst(_)
\* The rows of the Order table, the last inserted first.
NewestFirst(rows) ==
    IF rows = <<>> THEN <<>> ELSE <<rows[Len(rows)]>> \o NewestFirst(SubSeq(rows, 1, Len(rows) - 1))

\* C24: GET /orders/ returns the window [offset, offset+limit) of the orders
\* listed newest first: an order inserted after another is listed before it
\* (stated for the ledgers in which no two orders have the same
\* purchase_timestamp).
C24_ListingIsNewestInsertedFirst ==
    (/\ resp.op = "get_orders"
     /\ \A i, j \in DOMAIN orders :
           i # j => orders[i].purchase_timestamp # orders[j].purchase_timestamp)
    =>  resp.body.orders = Window(NewestFirst(orders), resp.body.offset, resp.body.limit)

\* The steps in which a create_order request is accepted: a thread with an
\* Order in its session ends with a 200.
IsAcceptance ==
    \E w \in Workers :
        /\ sessions[w].pc = "added"
        /\ sessions'[w] = Idle
        /\ resp'.op = "create_order"
        /\ resp'.status = 200

\* C30: under any interleaving of create_order requests, each accepted request
\* adds exactly one Order, with an id no other order has and with the issue
\* date, term and yield of a CurvePoint of the latest date; no other step
\* changes the ledger, so no accepted order is lost or duplicated.
C30_ConcurrentOrdersAreIndependent ==
    [][/\ IsAcceptance =>
            /\ orders' = Append(orders, resp'.body.order)
            /\ \A i \in DOMAIN orders : orders[i].id # resp'.body.order.id
            /\ \E i \in DOMAIN points :
                  /\ points[i].date = LatestDate(points)
                  /\ SplitT(points[i].date) = resp'.body.order.issue_date
                  /\ points[i].term = resp'.body.order.term
                  /\ points[i].yield_value = resp'.body.order.yield_value
       /\ ~IsAcceptance => orders' = orders
       /\ Range(orders') = created']_vars

\* C30 witness: two requests were in flight together and both orders are in
\* the ledger, the one built first committed last.
C30_Witness ==
    /\ Len(orders) = 2
    /\ orders[1].id = 1
    /\ orders[2].id = 2
    /\ orders[1].term # orders[2].term
    /\ orders[2].purchase_timestamp < orders[1].purchase_timestamp
    /\ \A w \in Workers : sessions[w] = Idle

====
